---- MODULE Spec2Model ----
(***************************************************************************)
(* BitsDraw image kernels (wasm-src/src/lib.rs): the dispatcher            *)
(* process_safe and the four algorithms floyd_steinberg_impl,              *)
(* bayer_dither_impl, flood_fill_impl and box_blur_impl, as one call that  *)
(* runs from its inputs to a returned ProcessResult or to a panic.         *)
(*                                                                         *)
(* Numbers.  u8 pixels and i16 intermediates are plain integers (no i16    *)
(* expression of the code leaves its range).  An f32 parameter is a record *)
(* [cls, twice]: cls is "fin", "nan" or "inf"; twice is two times the      *)
(* value for a finite number (so halves are representable) and the sign    *)
(* for an infinity.  A finite value of 2^32 or more is cast like +infinity *)
(* by every cast of the code and is not told apart from it.  A usize is a  *)
(* pair of 16-bit limbs [hi, lo] (the crate is built for wasm32, usize =   *)
(* 32 bits), so that usize::MAX and the wrap-around of `+` are exact.      *)
(* overflow_checks is the build profile: with it `+` panics on overflow    *)
(* (debug), without it `+` wraps (release).  A panic ends the call with no *)
(* ProcessResult.                                                          *)
(***************************************************************************)
EXTENDS Integers, Sequences, FiniteSets, TLC

VARIABLES operation, pixels, width, height, params,
          overflow_checks, pc, result, x, y, stack, writes, ret, panic

vars == <<operation, pixels, width, height, params,
          overflow_checks, pc, result, x, y, stack, writes, ret, panic>>

inputs == <<operation, pixels, width, height, params, overflow_checks>>

(***************************************************************************)
(* Bounds of the model.                                                    *)
(***************************************************************************)
MaxW == 3
MaxH == 3
MaxCells == 6
BayerMaxW == 9
BayerMaxH == 2

(***************************************************************************)
(* f32 parameters and the `as` casts.                                      *)
(***************************************************************************)
Fin(twice) == [cls |-> "fin", twice |-> twice]
F32(n) == Fin(2 * n)
NaN == [cls |-> "nan", twice |-> 0]
PosInf == [cls |-> "inf", twice |-> 1]
NegInf == [cls |-> "inf", twice |-> -1]

\* Mutant: division rounding toward minus infinity.
FloorDiv(a, b) == a \div b

\* Integer division truncating toward zero (Rust `/` on signed integers).
TruncDiv(a, b) ==
    IF a >= 0 THEN a \div b ELSE -((-a) \div b)

\* f32 `trunc`: the integer part of a finite value.
Trunc(f) == TruncDiv(f.twice, 2)

U8_MAX == 255

\* `f as u8`: NaN is 0, the value is truncated toward zero and saturated.
AsU8(f) ==
    CASE f.cls = "nan" -> 0
      [] f.cls = "inf" -> IF f.twice > 0 THEN U8_MAX ELSE 0
      [] OTHER -> IF Trunc(f) < 0 THEN 0
                  ELSE IF Trunc(f) > U8_MAX THEN U8_MAX ELSE Trunc(f)

(***************************************************************************)
(* usize, 32 bits, as two 16-bit limbs.                                    *)
(***************************************************************************)
LIMB == 65536

Usize(n) == [hi |-> n \div LIMB, lo |-> n % LIMB]
USIZE_MAX == [hi |-> LIMB - 1, lo |-> LIMB - 1]

\* The value of a usize that is known to be small (hi < 2^15).
ToInt(u) == u.hi * LIMB + u.lo

ULt(a, b) == a.hi < b.hi \/ (a.hi = b.hi /\ a.lo < b.lo)

UMin(a, b) == IF ULt(b, a) THEN b ELSE a

\* a + b modulo 2^32, and whether the sum left the range.
WrappingAdd(a, b) ==
    LET lo == a.lo + b.lo
        hi == a.hi + b.hi + (lo \div LIMB)
    IN  [hi |-> hi % LIMB, lo |-> lo % LIMB]

AddOverflows(a, b) ==
    LET lo == a.lo + b.lo
    IN  (a.hi + b.hi + (lo \div LIMB)) \div LIMB > 0

\* usize::saturating_sub
SaturatingSub(a, b) ==
    IF ULt(a, b) THEN Usize(0)
    ELSE LET borrow == IF a.lo < b.lo THEN 1 ELSE 0
         IN  [hi |-> a.hi - b.hi - borrow, lo |-> (a.lo - b.lo) % LIMB]

\* `f as usize`: NaN is 0, truncated toward zero, saturated to [0, usize::MAX].
AsUsize(f) ==
    CASE f.cls = "nan" -> Usize(0)
      [] f.cls = "inf" -> IF f.twice > 0 THEN USIZE_MAX ELSE Usize(0)
      [] OTHER -> IF Trunc(f) < 0 THEN Usize(0) ELSE Usize(Trunc(f))

\* Display of a usize (the `{}` of format!): its decimal digits.
Digit(d) == SubSeq("0123456789", d + 1, d + 1)

RECURSIVE UsizeToString(_)
UsizeToString(u) ==
    LET hq == u.hi \div 10
        mid == (u.hi % 10) * LIMB + u.lo
        q == [hi |-> hq, lo |-> mid \div 10]
    IN  IF u.hi = 0 /\ u.lo < 10 THEN Digit(u.lo)
        ELSE UsizeToString(q) \o Digit(mid % 10)

(***************************************************************************)
(* ProcessResult and the pixel buffer.                                     *)
(***************************************************************************)
Success(data) == [success |-> TRUE, error |-> "", data |-> data]
\* Mutant: a failure that hands back a buffer.
FailureWithData(message) ==
    [success |-> FALSE, error |-> message, data |-> <<0>>]

Failure(message) == [success |-> FALSE, error |-> message, data |-> <<>>]

\* No ProcessResult yet (the call has not returned).
NoResult == [success |-> FALSE, error |-> "", data |-> <<>>]

\* buf[idx], Rust's 0-based index.
At(buf, idx) == buf[idx + 1]
Store(buf, idx, v) == [buf EXCEPT ![idx + 1] = v]

InRange(buf, idx) == idx >= 0 /\ idx < Len(buf)

clamp_pixel(value) ==
    IF value < 0 THEN 0
    ELSE IF value > 255 THEN 255 ELSE value

\* BAYER_2X2, BAYER_4X4, BAYER_8X8
BAYER_2X2 == <<0, 128,
               192, 64>>

BAYER_4X4 == <<0, 128, 32, 160,
               192, 64, 224, 96,
               48, 176, 16, 144,
               240, 112, 208, 80>>

BAYER_8X8 == <<0, 128, 32, 160, 8, 136, 40, 168,
               192, 64, 224, 96, 200, 72, 232, 104,
               48, 176, 16, 144, 56, 184, 24, 152,
               240, 112, 208, 80, 248, 120, 216, 88,
               12, 140, 44, 172, 4, 132, 36, 164,
               204, 76, 236, 108, 196, 68, 228, 100,
               60, 188, 28, 156, 52, 180, 20, 148,
               252, 124, 220, 92, 244, 116, 212, 84>>

(***************************************************************************)
(* How a call ends.                                                        *)
(***************************************************************************)
Return(r) ==
    /\ pc' = "returned"
    /\ ret' = r
    /\ UNCHANGED <<result, x, y, stack, writes, panic>>

Panic(message) ==
    /\ pc' = "panicked"
    /\ panic' = message
    /\ UNCHANGED <<result, x, y, stack, writes, ret>>

\* for y in 0..h { for x in 0..w { ... } }: the position after (x, y).
NextX == IF x + 1 < width THEN x + 1 ELSE 0
NextY == IF x + 1 < width THEN y ELSE y + 1

\* The nested loops still have an iteration to run.
Scanning == y < height /\ width > 0

(***************************************************************************)
(* process_safe                                                            *)
(***************************************************************************)
\* Mutant: the match gains an arm for a name that has no implementation.
KnownOperationsExtra ==
    {"floyd_steinberg", "bayer_dither", "flood_fill", "box_blur", "invert"}

KnownOperations == {"floyd_steinberg", "bayer_dither", "flood_fill", "box_blur"}

ProcessSafe ==
    /\ pc = "call"
    /\ IF operation \in KnownOperations
       THEN /\ pc' = operation
            /\ UNCHANGED <<result, x, y, stack, writes, ret, panic>>
       ELSE Return(Failure("Unknown operation: " \o operation))
    /\ UNCHANGED inputs

(***************************************************************************)
(* floyd_steinberg_impl                                                    *)
(***************************************************************************)
FsThreshold == AsU8(params[1])

FloydSteinbergEntry ==
    /\ pc = "floyd_steinberg"
    /\ IF Len(params) = 0
       THEN Return(Failure("Floyd-Steinberg requires threshold parameter"))
       ELSE /\ pc' = "fs_scan"
            /\ result' = pixels
            /\ x' = 0
            /\ y' = 0
            /\ UNCHANGED <<stack, writes, ret, panic>>
    /\ UNCHANGED inputs

\* result[n] = clamp_pixel(result[n] as i16 + error * k / 16)
FsDiffuse(buf, n, error, k) ==
    Store(buf, n, clamp_pixel(At(buf, n) + TruncDiv(error * k, 16)))

\* Mutant: a set pixel is stored as the bit 1, not as the intensity 255.
FsNewPixelBit(old_pixel) == IF old_pixel > FsThreshold THEN 1 ELSE 0

FsNewPixel(old_pixel) == IF old_pixel > FsThreshold THEN 255 ELSE 0

\* The indices one scan step reads or writes.
FsTouched ==
    {y * width + x}
    \cup (IF x + 1 < width THEN {y * width + (x + 1)} ELSE {})
    \cup (IF y + 1 < height
          THEN {(y + 1) * width + x}
               \cup (IF x > 0 THEN {(y + 1) * width + (x - 1)} ELSE {})
               \cup (IF x + 1 < width THEN {(y + 1) * width + (x + 1)} ELSE {})
          ELSE {})

\* One iteration of the loop body at (x, y), on the working buffer buf.
FsBody(buf) ==
    LET w == width
        h == height
        idx == y * w + x
        old_pixel == At(buf, idx)
        new_pixel == FsNewPixel(old_pixel)
        r0 == Store(buf, idx, new_pixel)
        error == old_pixel - new_pixel
        r1 == IF x + 1 < w
              THEN FsDiffuse(r0, y * w + (x + 1), error, 7)
              ELSE r0
        r2 == IF y + 1 < h /\ x > 0
              THEN FsDiffuse(r1, (y + 1) * w + (x - 1), error, 3)
              ELSE r1
        r3 == IF y + 1 < h
              THEN FsDiffuse(r2, (y + 1) * w + x, error, 5)
              ELSE r2
        r4 == IF y + 1 < h /\ x + 1 < w
              THEN FsDiffuse(r3, (y + 1) * w + (x + 1), error, 1)
              ELSE r3
    IN  r4

FloydSteinbergStep ==
    /\ pc = "fs_scan"
    /\ Scanning
    /\ IF \E n \in FsTouched : ~InRange(result, n)
       THEN Panic("index out of bounds")
       ELSE /\ result' = FsBody(result)
            /\ x' = NextX
            /\ y' = NextY
            /\ UNCHANGED <<pc, stack, writes, ret, panic>>
    /\ UNCHANGED inputs

FloydSteinbergReturn ==
    /\ pc = "fs_scan"
    /\ ~Scanning
    /\ Return(Success(result))
    /\ UNCHANGED inputs

(***************************************************************************)
(* bayer_dither_impl                                                       *)
(***************************************************************************)
BayerMatrixSize == AsUsize(params[1])

BayerThreshold == IF Len(params) > 1 THEN AsU8(params[2]) ELSE 128

BayerSupported == {2, 4, 8}

\* match matrix_size { 2 => &BAYER_2X2, 4 => &BAYER_4X4, 8 => &BAYER_8X8, .. }
BayerMatrix(size) ==
    CASE size = 2 -> BAYER_2X2
      [] size = 4 -> BAYER_4X4
      [] size = 8 -> BAYER_8X8

BayerDitherEntry ==
    /\ pc = "bayer_dither"
    /\ IF Len(params) = 0
       THEN Return(Failure("Bayer dither requires matrix size parameter"))
       ELSE IF \A s \in BayerSupported : BayerMatrixSize # Usize(s)
       THEN Return(Failure("Unsupported Bayer matrix size: "
                           \o UsizeToString(BayerMatrixSize)))
       ELSE /\ pc' = "bayer_scan"
            /\ result' = pixels
            /\ x' = 0
            /\ y' = 0
            /\ UNCHANGED <<stack, writes, ret, panic>>
    /\ UNCHANGED inputs

\* Mutant: the matrix is read with row and column exchanged.
BayerPixelTransposed(pixel, px, py) ==
    LET matrix_size == ToInt(BayerMatrixSize)
        bayer_matrix == BayerMatrix(matrix_size)
        dither_value ==
            At(bayer_matrix, (px % matrix_size) * matrix_size + (py % matrix_size))
        adjusted_threshold == BayerThreshold + TruncDiv(dither_value - 128, 4)
    IN  IF pixel > adjusted_threshold THEN 255 ELSE 0

\* The value the loop body stores at (px, py) for the pixel value `pixel`.
BayerPixel(pixel, px, py) ==
    LET matrix_size == ToInt(BayerMatrixSize)
        bayer_matrix == BayerMatrix(matrix_size)
        dither_value ==
            At(bayer_matrix, (py % matrix_size) * matrix_size + (px % matrix_size))
        adjusted_threshold == BayerThreshold + TruncDiv(dither_value - 128, 4)
    IN  IF pixel > adjusted_threshold THEN 255 ELSE 0

BayerDitherStep ==
    /\ pc = "bayer_scan"
    /\ Scanning
    /\ LET idx == y * width + x
       IN  IF ~InRange(result, idx)
           THEN Panic("index out of bounds")
           ELSE /\ result' = Store(result, idx, BayerPixel(At(result, idx), x, y))
                /\ x' = NextX
                /\ y' = NextY
                /\ UNCHANGED <<pc, stack, writes, ret, panic>>
    /\ UNCHANGED inputs

BayerDitherReturn ==
    /\ pc = "bayer_scan"
    /\ ~Scanning
    /\ Return(Success(result))
    /\ UNCHANGED inputs

(***************************************************************************)
(* flood_fill_impl                                                         *)
(***************************************************************************)
FillStartX == AsUsize(params[1])
FillStartY == AsUsize(params[2])
FillValue == AsU8(params[3])

\* start_x >= w || start_y >= h
FillOutOfBounds ==
    ~ULt(FillStartX, Usize(width)) \/ ~ULt(FillStartY, Usize(height))

FillStartIdx == ToInt(FillStartY) * width + ToInt(FillStartX)

\* result[start_y * w + start_x], read before any write (result is a copy of
\* pixels at that point).
OriginalValue == At(pixels, FillStartIdx)

FloodFillEntry ==
    /\ pc = "flood_fill"
    /\ IF Len(params) < 3
       THEN Return(Failure("Flood fill requires x, y, fill_value parameters"))
       ELSE IF FillOutOfBounds
       THEN Return(Failure("Fill coordinates out of bounds"))
       ELSE IF ~InRange(pixels, FillStartIdx)
       THEN Panic("index out of bounds")
       ELSE IF OriginalValue = FillValue
       THEN Return(Success(pixels))
       ELSE /\ pc' = "ff_loop"
            /\ result' = pixels
            /\ stack' = << <<ToInt(FillStartX), ToInt(FillStartY)>> >>
            /\ UNCHANGED <<x, y, writes, ret, panic>>
    /\ UNCHANGED inputs

\* Mutant: the neighbour above is never pushed.
FillPushesNoUp(cx, cy) ==
    (IF cx > 0 THEN << <<cx - 1, cy>> >> ELSE <<>>)
    \o (IF cx + 1 < width THEN << <<cx + 1, cy>> >> ELSE <<>>)
    \o (IF cy + 1 < height THEN << <<cx, cy + 1>> >> ELSE <<>>)

\* The neighbours pushed after filling (cx, cy), in the order of the code.
FillPushes(cx, cy) ==
    (IF cx > 0 THEN << <<cx - 1, cy>> >> ELSE <<>>)
    \o (IF cx + 1 < width THEN << <<cx + 1, cy>> >> ELSE <<>>)
    \o (IF cy > 0 THEN << <<cx, cy - 1>> >> ELSE <<>>)
    \o (IF cy + 1 < height THEN << <<cx, cy + 1>> >> ELSE <<>>)

\* Mutant: a popped cell is filled when it does not hold the fill value yet.
FillMatchesUnfilled(buf, idx) == At(buf, idx) # FillValue

\* The test that lets a popped cell be filled.
FillMatches(buf, idx) == At(buf, idx) = OriginalValue

\* One iteration of `while let Some((x, y)) = stack.pop()`.
FloodFillPop ==
    /\ pc = "ff_loop"
    /\ stack # <<>>
    /\ LET top == stack[Len(stack)]
           rest == SubSeq(stack, 1, Len(stack) - 1)
           cx == top[1]
           cy == top[2]
           idx == cy * width + cx
       IN  IF cx >= width \/ cy >= height
           THEN /\ stack' = rest
                /\ UNCHANGED <<pc, result, x, y, writes, ret, panic>>
           ELSE IF ~InRange(result, idx)
           THEN Panic("index out of bounds")
           ELSE IF ~FillMatches(result, idx)
           THEN /\ stack' = rest
                /\ UNCHANGED <<pc, result, x, y, writes, ret, panic>>
           ELSE /\ result' = Store(result, idx, FillValue)
                /\ writes' = [writes EXCEPT ![idx + 1] = @ + 1]
                /\ stack' = rest \o FillPushes(cx, cy)
                /\ UNCHANGED <<pc, x, y, ret, panic>>
    /\ UNCHANGED inputs

FloodFillReturn ==
    /\ pc = "ff_loop"
    /\ stack = <<>>
    /\ Return(Success(result))
    /\ UNCHANGED inputs

(***************************************************************************)
(* box_blur_impl                                                           *)
(***************************************************************************)
BlurRadius == AsUsize(params[1])

BoxBlurEntry ==
    /\ pc = "box_blur"
    /\ IF Len(params) = 0
       THEN Return(Failure("Box blur requires radius parameter"))
       ELSE /\ pc' = "blur_scan"
            /\ result' = [i \in 1..(width * height) |-> 0]
            /\ x' = 0
            /\ y' = 0
            /\ UNCHANGED <<stack, writes, ret, panic>>
    /\ UNCHANGED inputs

\* c.saturating_sub(radius)
BlurStart(c) == ToInt(SaturatingSub(Usize(c), BlurRadius))

\* c + radius + 1, as the release build computes it (wrapping).
BlurSpan(c) == WrappingAdd(WrappingAdd(Usize(c), BlurRadius), Usize(1))

\* c + radius + 1 leaves usize (the debug build panics there).
BlurSpanOverflows(c) ==
    \/ AddOverflows(Usize(c), BlurRadius)
    \/ AddOverflows(WrappingAdd(Usize(c), BlurRadius), Usize(1))

\* (c + radius + 1).min(limit)
BlurEnd(c, limit) == ToInt(UMin(BlurSpan(c), Usize(limit)))

\* The cells <<blur_x, blur_y>> the two inner loops visit for (px, py).
BlurWindow(px, py) ==
    {<<bx, by>> : bx \in BlurStart(px)..(BlurEnd(px, width) - 1),
                  by \in BlurStart(py)..(BlurEnd(py, height) - 1)}

RECURSIVE BlurSum(_)
BlurSum(cells) ==
    IF cells = {} THEN 0
    ELSE LET c == CHOOSE c \in cells : TRUE
         IN  At(pixels, c[2] * width + c[1]) + BlurSum(cells \ {c})

BoxBlurStep ==
    /\ pc = "blur_scan"
    /\ Scanning
    /\ LET window == BlurWindow(x, y)
           count == Cardinality(window)
       IN  IF overflow_checks /\ (BlurSpanOverflows(y) \/ BlurSpanOverflows(x))
           THEN Panic("attempt to add with overflow")
           ELSE IF \E c \in window : ~InRange(pixels, c[2] * width + c[1])
           THEN Panic("index out of bounds")
           ELSE IF count = 0
           THEN Panic("attempt to divide by zero")
           ELSE /\ result' = Store(result, y * width + x, BlurSum(window) \div count)
                /\ x' = NextX
                /\ y' = NextY
                /\ UNCHANGED <<pc, stack, writes, ret, panic>>
    /\ UNCHANGED inputs

BoxBlurReturn ==
    /\ pc = "blur_scan"
    /\ ~Scanning
    /\ Return(Success(result))
    /\ UNCHANGED inputs

(***************************************************************************)
(* The inputs of a call.                                                   *)
(***************************************************************************)
PixelVals == {10, 128, 200}
FillPixelVals == {10, 200}

\* width x height grids of at most MaxCells cells.
Shapes ==
    {s \in (0..MaxW) \X (0..MaxH) : s[1] * s[2] <= MaxCells}

BayerShapes == (0..BayerMaxW) \X (0..BayerMaxH)

\* Buffers of n pixels that repeat a tile of one or two values.
Tiles == UNION {[1..k -> PixelVals] : k \in 1..2}
Tiled(n, tile) == [i \in 1..n |-> tile[((i - 1) % Len(tile)) + 1]]

\* A buffer length next to w * h: the length itself, one less, one more.
Lengths(n) == {m \in {n - 1, n, n + 1} : m >= 0}

WellFormed == Len(pixels) = width * height

\* Parameter values: in and out of range, fractional, negative, not finite.
ThresholdVals == {F32(0), F32(128), Fin(255), F32(199), F32(-1), F32(300), NaN}
SizeVals == {F32(2), F32(4), F32(8), Fin(5), F32(3), F32(16), F32(-1), PosInf}
BaseVals == {F32(128), F32(0), F32(100), F32(255)}
CoordVals(max) ==
    {F32(n) : n \in -1..max} \cup {Fin(3), PosInf, NaN}
FillVals == {F32(10), F32(77), F32(300)}
RadiusVals ==
    {F32(n) : n \in -1..MaxW} \cup {Fin(1), PosInf, NaN}

FsParams == {<<>>} \cup {<<t>> : t \in ThresholdVals}
BayerParams ==
    {<<>>} \cup {<<s>> : s \in SizeVals}
    \cup {<<s, b>> : s \in SizeVals, b \in BaseVals}
FillParams ==
    {<<>>, <<F32(0), F32(0)>>}
    \cup {<<sx, sy, f>> : sx \in CoordVals(MaxW), sy \in CoordVals(MaxH),
                          f \in FillVals}
BlurParams == {<<>>} \cup {<<r>> : r \in RadiusVals}

\* Names process_safe does not know: empty, other case, a prefix, padded.
UnknownOperations == {"", "Flood_Fill", "BOX_BLUR", "bayer", "box_blur ", "invert"}

\* A small parameter set per operation for the calls of every kind.
CallParams(op) ==
    CASE op = "floyd_steinberg" -> {<<>>, <<F32(128)>>, <<NaN>>}
      [] op = "bayer_dither" ->
            {<<>>, <<F32(2)>>, <<F32(4), F32(100)>>, <<F32(3)>>, <<PosInf>>}
      [] op = "flood_fill" ->
            {<<>>, <<F32(0), F32(0)>>}
            \cup {<<sx, sy, F32(77)>> : sx \in {F32(-1), F32(0), F32(1), PosInf},
                                        sy \in {F32(0), F32(2)}}
      [] op = "box_blur" -> {<<>>, <<F32(0)>>, <<F32(1)>>, <<PosInf>>}
      [] OTHER -> {<<>>, <<F32(1)>>, <<F32(0), F32(0), F32(77)>>}

\* The state of a call before process_safe runs.
Fresh ==
    /\ pc = "call"
    /\ result = <<>>
    /\ x = 0
    /\ y = 0
    /\ stack = <<>>
    /\ writes = [i \in 1..Len(pixels) |-> 0]
    /\ ret = NoResult
    /\ panic = ""

\* Calls of every operation name, on buffers whose length may be off by one.
Init ==
    /\ operation \in KnownOperations \cup UnknownOperations
    /\ \E s \in Shapes : width = s[1] /\ height = s[2]
    /\ \E n \in Lengths(width * height), tile \in Tiles : pixels = Tiled(n, tile)
    /\ params \in CallParams(operation)
    /\ overflow_checks \in BOOLEAN
    /\ Fresh

InitFloyd ==
    /\ operation = "floyd_steinberg"
    /\ \E s \in Shapes : width = s[1] /\ height = s[2]
    /\ pixels \in [1..(width * height) -> PixelVals]
    /\ params \in FsParams
    /\ overflow_checks \in BOOLEAN
    /\ Fresh

InitBayer ==
    /\ operation = "bayer_dither"
    /\ \E s \in BayerShapes : width = s[1] /\ height = s[2]
    /\ \E tile \in Tiles : pixels = Tiled(width * height, tile)
    /\ params \in BayerParams
    /\ overflow_checks \in BOOLEAN
    /\ Fresh

\* flood_fill_impl has no arithmetic that can leave usize on these grids: the
\* release build stands for both.
InitFlood ==
    /\ operation = "flood_fill"
    /\ \E s \in Shapes : width = s[1] /\ height = s[2]
    /\ pixels \in [1..(width * height) -> FillPixelVals]
    /\ params \in FillParams
    /\ overflow_checks = FALSE
    /\ Fresh

InitBlur ==
    /\ operation = "box_blur"
    /\ \E s \in Shapes : width = s[1] /\ height = s[2]
    /\ pixels \in [1..(width * height) -> PixelVals]
    /\ params \in BlurParams
    /\ overflow_checks \in BOOLEAN
    /\ Fresh

FloydSteinberg == FloydSteinbergEntry \/ FloydSteinbergStep \/ FloydSteinbergReturn
BayerDither == BayerDitherEntry \/ BayerDitherStep \/ BayerDitherReturn
FloodFill == FloodFillEntry \/ FloodFillPop \/ FloodFillReturn
BoxBlur == BoxBlurEntry \/ BoxBlurStep \/ BoxBlurReturn

Next == ProcessSafe \/ FloydSteinberg \/ BayerDither \/ FloodFill \/ BoxBlur
NextFloyd == ProcessSafe \/ FloydSteinberg
NextBayer == ProcessSafe \/ BayerDither
NextFlood == ProcessSafe \/ FloodFill
NextBlur == ProcessSafe \/ BoxBlur

Spec == Init /\ [][Next]_vars
SpecFloyd == InitFloyd /\ [][NextFloyd]_vars
SpecBayer == InitBayer /\ [][NextBayer]_vars
SpecFlood == InitFlood /\ [][NextFlood]_vars
SpecBlur == InitBlur /\ [][NextBlur]_vars

\* A call is one synchronous run: a step that can be taken is taken.
SpecFloodFair == SpecFlood /\ WF_vars(NextFlood)

(***************************************************************************)
(* Properties.                                                             *)
(***************************************************************************)
\* The call is over: a ProcessResult was returned.
Returned == pc = "returned"

\* No algorithm ran: no working buffer, no loop position, no work list.
Untouched ==
    /\ result = <<>>
    /\ x = 0 /\ y = 0
    /\ stack = <<>>
    /\ \A i \in DOMAIN writes : writes[i] = 0

\* C1: for an operation name that is not exactly one of the four known names,
\* and whatever the buffer, the dimensions and the parameters, process_safe
\* returns the failure "Unknown operation: <name>" with empty data, and no
\* algorithm runs.
UnknownOperationFails ==
    (/\ pc # "call"
     /\ operation \notin {"floyd_steinberg", "bayer_dither", "flood_fill", "box_blur"})
    => /\ Returned
       /\ ret.success = FALSE
       /\ ret.error = "Unknown operation: " \o operation
       /\ ret.data = <<>>
       /\ Untouched

\* A call with a known name in another case, on a non-empty buffer, failed.
UnknownOperationSeen ==
    /\ Returned
    /\ operation = "Flood_Fill"
    /\ Len(pixels) > 0
    /\ Len(params) = 3
    /\ ret.error = "Unknown operation: Flood_Fill"

\* C2: a returned ProcessResult is never populated on both sides: a success
\* has the empty error message, a failure has empty data and a non-empty
\* error message.
ResultOneSided ==
    Returned =>
        /\ ret.success => ret.error = ""
        /\ ~ret.success => (ret.data = <<>> /\ ret.error # "")

\* flood_fill returned its out-of-bounds failure.
FailureSeen ==
    /\ Returned
    /\ operation = "flood_fill"
    /\ ~ret.success
    /\ ret.error = "Fill coordinates out of bounds"
    /\ Len(pixels) > 0

(***************************************************************************)
(* Flood fill: the region of the start.                                    *)
(***************************************************************************)
Cells == {c \in (0..(width - 1)) \X (0..(height - 1)) : TRUE}
CellIdx(c) == c[2] * width + c[1]

\* Up, down, left or right of each other.
Adjacent(c, d) ==
    \/ c[1] = d[1] /\ (c[2] = d[2] + 1 \/ d[2] = c[2] + 1)
    \/ c[2] = d[2] /\ (c[1] = d[1] + 1 \/ d[1] = c[1] + 1)

\* The cells reachable from `seen` through adjacent cells of the input that
\* hold the value v.
RECURSIVE Region(_, _)
Region(seen, v) ==
    LET more == {c \in Cells \ seen :
                    /\ At(pixels, CellIdx(c)) = v
                    /\ \E d \in seen : Adjacent(c, d)}
    IN  IF more = {} THEN seen ELSE Region(seen \cup more, v)

\* A flood_fill call that starts a traversal: three parameters, the start in
\* the grid, the start's value different from the fill value.
FillStart == <<ToInt(AsUsize(params[1])), ToInt(AsUsize(params[2]))>>
FillTraverses ==
    /\ operation = "flood_fill"
    /\ WellFormed
    /\ Len(params) >= 3
    /\ ULt(AsUsize(params[1]), Usize(width))
    /\ ULt(AsUsize(params[2]), Usize(height))
    /\ At(pixels, CellIdx(FillStart)) # AsU8(params[3])

\* C3: on a well-formed buffer and an in-bounds start whose value differs from
\* the fill value, flood_fill returns a buffer where exactly the cells
\* 4-connected to the start through cells of the start's original value hold
\* the fill value, and every other cell keeps its input value.
FillsExactlyTheRegion ==
    (Returned /\ FillTraverses) =>
        /\ ret.success
        /\ Len(ret.data) = Len(pixels)
        /\ LET region == Region({FillStart}, At(pixels, CellIdx(FillStart)))
           IN  \A c \in Cells :
                  At(ret.data, CellIdx(c)) =
                     IF c \in region THEN AsU8(params[3])
                     ELSE At(pixels, CellIdx(c))

\* A fill that stopped at a diagonal: the start and its diagonal neighbour
\* hold the same value, the two cells between them do not, and only the
\* start was filled.
DiagonalKept ==
    /\ Returned /\ FillTraverses
    /\ width = 2 /\ height = 2
    /\ pixels = <<10, 200, 200, 10>>
    /\ FillStart = <<0, 0>>
    /\ ret.data = <<77, 200, 200, 10>>

\* The parameter, as a number, is no index of 0..(n - 1).
OutsideRange(f, n) ==
    \/ f.cls = "inf"
    \/ f.cls = "fin" /\ (Trunc(f) < 0 \/ Trunc(f) >= n)

\* C4: a flood_fill call with at least 3 parameters whose start lies outside
\* [0,width) x [0,height), on either side of the range, returns the failure
\* "Fill coordinates out of bounds" with empty data and fills no pixel.
OutOfBoundsStartFails ==
    (/\ operation = "flood_fill"
     /\ Len(params) >= 3
     /\ pc \notin {"call", "flood_fill"}
     /\ OutsideRange(params[1], width) \/ OutsideRange(params[2], height))
    => /\ Returned
       /\ ~ret.success
       /\ ret.error = "Fill coordinates out of bounds"
       /\ ret.data = <<>>
       /\ \A i \in DOMAIN writes : writes[i] = 0

(***************************************************************************)
(* Floyd-Steinberg: the scan.                                              *)
(***************************************************************************)
\* The cells the row-major scan has passed when it stands at (x, y).
Visited == {c \in Cells : c[2] < y \/ (c[2] = y /\ c[1] < x)}

Binary(v) == v = 0 \/ v = 255

\* C5: during the floyd_steinberg scan a pixel the scan has visited holds 0 or
\* 255 and no later step writes it again, so the returned buffer holds only
\* 0 and 255, for every well-formed image and every threshold.
VisitedPixelsAreFinal ==
    /\ [](pc = "fs_scan" => \A c \in Visited : Binary(At(result, CellIdx(c))))
    /\ [][pc = "fs_scan" =>
             \A c \in Visited : At(result', CellIdx(c)) = At(result, CellIdx(c))]_vars
    /\ []((Returned /\ operation = "floyd_steinberg" /\ Len(params) > 0) =>
             /\ ret.success
             /\ Len(ret.data) = width * height
             /\ \A i \in 1..Len(ret.data) : Binary(ret.data[i]))

\* A scan over six pixels, none of them 0 or 255, has returned.
ScanFinished ==
    /\ Returned
    /\ operation = "floyd_steinberg"
    /\ ret.success
    /\ Len(ret.data) = 6
    /\ \E i, j \in 1..6 : ret.data[i] = 0 /\ ret.data[j] = 255

\* n / d rounded toward zero, from the sign and the magnitude.
Sign(n) == IF n < 0 THEN -1 ELSE 1
Magnitude(n) == IF n < 0 THEN -n ELSE n
Quotient(n, d) == Sign(n) * (Magnitude(n) \div d)

Saturate(v) == IF v < 0 THEN 0 ELSE IF v > 255 THEN 255 ELSE v

\* The sixteenths of the residual that the cell at offset (dx, dy) of the
\* scanned pixel receives; 0 for a cell that is no neighbour of the kernel.
Sixteenths(dx, dy) ==
    CASE dx = 1 /\ dy = 0 -> 7
      [] dx = -1 /\ dy = 1 -> 3
      [] dx = 0 /\ dy = 1 -> 5
      [] dx = 1 /\ dy = 1 -> 1
      [] OTHER -> 0

\* C9: a scan step at (x, y) stores new = 255 when old > threshold, else 0,
\* and adds to the right, below-left, below and below-right neighbours that
\* lie in the grid the residual e = old - new times 7, 3, 5 and 1, each product
\* divided by 16 with truncation toward zero on its own, each sum clamped to
\* [0,255]; every other cell, the first of the next row included, is left
\* as it was.
StepDiffusesResidual ==
    [][(pc = "fs_scan" /\ pc' = "fs_scan") =>
          LET old == At(result, CellIdx(<<x, y>>))
              new == IF old > AsU8(params[1]) THEN 255 ELSE 0
              e == old - new
          IN  \A c \in Cells :
                 At(result', CellIdx(c)) =
                    IF c = <<x, y>> THEN new
                    ELSE IF Sixteenths(c[1] - x, c[2] - y) # 0
                    THEN Saturate(At(result, CellIdx(c))
                                  + Quotient(e * Sixteenths(c[1] - x, c[2] - y), 16))
                    ELSE At(result, CellIdx(c))]_vars

\* The step at the end of the first row of <<10, 200, 10, 10>> under
\* threshold 128: the residual is -51, its shares -153/16 = -9 and
\* -255/16 = -15, and the second lands below 0 and is clamped.
NegativeResidualAtRowEnd ==
    /\ pc = "fs_scan"
    /\ width = 2 /\ height = 2
    /\ pixels = <<10, 200, 10, 10>>
    /\ params = <<F32(128)>>
    /\ x = 0 /\ y = 1
    /\ result = <<0, 255, 4, 0>>

(***************************************************************************)
(* Bayer dithering.                                                        *)
(***************************************************************************)
\* Row r of the size x size matrix, rows and columns counted from 0.
MatrixRow(size, r) ==
    LET table == CASE size = 2 -> BAYER_2X2
                   [] size = 4 -> BAYER_4X4
                   [] size = 8 -> BAYER_8X8
    IN  SubSeq(table, r * size + 1, r * size + size)

BayerRuns ==
    /\ operation = "bayer_dither"
    /\ Len(params) > 0
    /\ \E s \in {2, 4, 8} : AsUsize(params[1]) = Usize(s)

Uniform == \A i, j \in 1..Len(pixels) : pixels[i] = pixels[j]

\* C8: the flood_fill work-list loop terminates for every well-formed image
\* and in-bounds start: a cell changes only from the original value to the
\* fill value, at most once, never back, the work list becomes empty and the
\* call returns; on a uniform image filled to a new value every pixel is
\* written exactly once.
WorkListTerminates ==
    /\ (pc = "ff_loop") ~> (Returned /\ stack = <<>>)
    /\ [][pc = "ff_loop" =>
             \A i \in 1..Len(result) :
                /\ result'[i] # result[i] =>
                      (/\ result[i] = At(pixels, CellIdx(FillStart))
                       /\ result'[i] = AsU8(params[3])
                       /\ writes[i] = 0
                       /\ writes'[i] = 1)
                /\ result[i] = result'[i] => writes'[i] = writes[i]]_vars
    /\ []((Returned /\ FillTraverses /\ Uniform) =>
             \A i \in 1..Len(pixels) : writes[i] = 1 /\ ret.data[i] = AsU8(params[3]))

\* A uniform image of six pixels was filled to a new value.
UniformFilled ==
    /\ Returned /\ FillTraverses /\ Uniform
    /\ Len(pixels) = 6
    /\ \A i \in 1..6 : ret.data[i] = 77 /\ writes[i] = 1

(***************************************************************************)
(* Box blur.                                                               *)
(***************************************************************************)
BlurRuns == operation = "box_blur" /\ WellFormed /\ Len(params) > 0

\* C7: on a well-formed image whose pixels all hold the same value v,
\* box_blur succeeds and every output pixel is v, whatever the radius, the
\* largest representable radius included.
UniformImageStaysUniform ==
    (BlurRuns /\ Uniform) =>
        /\ pc # "panicked"
        /\ Returned =>
              /\ ret.success
              /\ Len(ret.data) = Len(pixels)
              /\ \A i \in 1..Len(pixels) : ret.data[i] = pixels[i]

\* The distance from a to b is at most the radius r (a usize).
Within(a, b, r) == ~ULt(r, Usize(Magnitude(a - b)))

\* The cells of the window [max(0,x-r), min(width,x+r+1)) x
\* [max(0,y-r), min(height,y+r+1)) of the cell c.
WindowOf(c, r) ==
    {d \in Cells : Within(d[1], c[1], r) /\ Within(d[2], c[2], r)}

RECURSIVE SumOf(_)
SumOf(cells) ==
    IF cells = {} THEN 0
    ELSE LET d == CHOOSE d \in cells : TRUE
         IN  At(pixels, CellIdx(d)) + SumOf(cells \ {d})

\* C10: for every well-formed image and radius r, each box_blur output pixel
\* (x,y) is the integer quotient of the sum of the input pixels of its window
\* by the number of pixels of the window, which is never zero; radius 0
\* returns the input unchanged.
BlurIsWindowAverage ==
    BlurRuns =>
        LET r == AsUsize(params[1])
        IN  /\ (pc = "blur_scan" /\ Scanning) =>
                  Cardinality(BlurWindow(x, y)) > 0
            /\ pc # "panicked"
            /\ Returned =>
                  /\ ret.success
                  /\ Len(ret.data) = Len(pixels)
                  /\ \A c \in Cells :
                        At(ret.data, CellIdx(c)) =
                           SumOf(WindowOf(c, r)) \div Cardinality(WindowOf(c, r))
                  /\ r = Usize(0) => ret.data = pixels

====
